---- MODULE Spec2Model ----
(***************************************************************************)
(* Model of the usocketio client: the Engine.IO packet / payload decoder   *)
(* (usocketio/protocol.py) and the polling -> websocket handshake driven   *)
(* by connect() (usocketio/client.py).                                     *)
(*                                                                         *)
(* Bytes are integers (their ASCII code), text is a sequence of one-char   *)
(* strings, a packet is the Python tuple <<type, data>>.                   *)
(* The JSON document carried by an OPEN packet is abbreviated to a single  *)
(* letter: "J" stands for {"sid":"abc","upgrades":["websocket"],...},      *)
(* "L" for {"sid":"xyz","upgrades":["websocket"],...} and "K" for          *)
(* {"sid":"abc","upgrades":[]}; any other text is not JSON.                *)
(***************************************************************************)
EXTENDS Integers, Sequences, FiniteSets, TLC

VARIABLES
    arg,       \* the arguments of connect: the URI and the query
    pc,        \* position of connect(): the statement it is about to run
    hp,        \* position inside _connect_http, "-" when not in a polling call
    path,      \* connect's local `path`, a sequence of string fragments
    http,      \* exchanges on polling sockets so far, in order: the request
               \* written and the response the server gave
    socks,     \* every polling socket created so far; the last is the current one
    ret,       \* outcome of the `then` callback, pending the finally clause
    packets,   \* connect's local `packets`: the generator of the opening poll
    params,    \* connect's local `params` after json.loads
    ws,        \* state of the persistent transport created by SocketIO(...)
    wsSent,    \* packets sent with socketio._send_packet, in order
    wsRecv,    \* packets returned by socketio._recv during connect, in order
    handled,   \* calls of socketio._handle_packet, in order
    fires,     \* number of times the 'connection' handler has run
    err,       \* the exception that ended connect, or NoErr
    cbErr,     \* the exception that ended the last run of on_connect, or NoErr
    srv,       \* the server side: the packets it put in the opening poll
    cIn,       \* codec run: the packets that were encoded
    cGen,      \* codec run: the generator returned by decode_payload
    cOut,      \* codec run: the packets yielded so far
    cStatus    \* codec run: "running", "stopped" or the exception raised

vars == <<arg, pc, hp, path, http, socks, ret, packets, params, ws, wsSent, wsRecv,
          handled, fires, err, cbErr, srv, cIn, cGen, cOut, cStatus>>

hsVars == <<arg, pc, hp, path, http, socks, ret, packets, params, ws, wsSent,
            wsRecv, handled, fires, err, cbErr, srv>>

codecVars == <<cIn, cGen, cOut, cStatus>>

----------------------------------------------------------------------------
(* Bounds of the model *)

\* packets that follow OPEN in the opening poll
MaxPending == 2

\* receives the upgrade wait may take before a deadline would have expired
WaitDeadline == 1

\* packets other than NOOP the transport may yield while connect waits
MaxWait == WaitDeadline + 1

\* invocations of the 'connection' handler
MaxFires == 2

\* packets the main loop reads from the transport after the handshake
MaxPost == 1

\* packets in one payload of a codec run
MaxPackets == 3

----------------------------------------------------------------------------
(* protocol.py: packet types *)

PACKET_OPEN == 0
PACKET_CLOSE == 1
PACKET_PING == 2
PACKET_PONG == 3
PACKET_MESSAGE == 4
PACKET_UPGRADE == 5
PACKET_NOOP == 6

\* the payload separator tested by decode_payload
SEP == 30

----------------------------------------------------------------------------
(* Text and bytes *)

Chr ==
    ( 48 :> "0" @@ 49 :> "1" @@ 50 :> "2" @@ 51 :> "3" @@ 52 :> "4" @@
      53 :> "5" @@ 54 :> "6" @@ 56 :> "8" @@ 74 :> "J" @@ 75 :> "K" @@
      76 :> "L" @@
      97 :> "a" @@ 98 :> "b" @@ 99 :> "c" @@ 101 :> "e" @@ 111 :> "o" @@
      112 :> "p" @@ 114 :> "r" @@ 120 :> "x" @@ 30 :> "\\x1e" )

Ord(c) == CHOOSE b \in DOMAIN Chr : Chr[b] = c

DigitVal ==
    ( "0" :> 0 @@ "1" :> 1 @@ "2" :> 2 @@ "3" :> 3 @@ "4" :> 4 @@
      "5" :> 5 @@ "6" :> 6 @@ "8" :> 8 )

\* bytes.decode('utf-8') on ASCII input
Utf8Decode(bytes) == [i \in 1..Len(bytes) |-> Chr[bytes[i]]]

\* str.encode('utf-8') on ASCII input
Utf8Encode(text) == [i \in 1..Len(text) |-> Ord(text[i])]

probe == <<"p", "r", "o", "b", "e">>

----------------------------------------------------------------------------
(* Wire format written by the server *)

EncodePacket(p) == <<Ord(CHOOSE c \in DOMAIN DigitVal : DigitVal[c] = p[1])>>
                   \o Utf8Encode(p[2])

RECURSIVE EncodePayload(_)
EncodePayload(ps) ==
    IF ps = <<>> THEN <<>>
    ELSE IF Len(ps) = 1 THEN EncodePacket(ps[1])
    ELSE EncodePacket(ps[1]) \o <<SEP>> \o EncodePayload(Tail(ps))

----------------------------------------------------------------------------
(* protocol.py: decode_packet, decode_payload *)

NoPacket == <<-1, <<>>>>

\* decode_packet(buf) for a str argument
decode_packet(buf) ==
    IF buf = <<>>
        THEN [exc |-> "IndexError", at |-> "protocol.py:26", value |-> NoPacket]
    ELSE IF buf[1] = "b"
        THEN [exc |-> "NotImplementedError", at |-> "protocol.py:28",
              value |-> NoPacket]
    ELSE IF buf[1] \notin DOMAIN DigitVal
        THEN [exc |-> "ValueError", at |-> "protocol.py:30", value |-> NoPacket]
    ELSE [exc |-> "none", at |-> "", value |-> <<DigitVal[buf[1]], Tail(buf)>>]

\* the inner while loop of decode_payload: index of the first separator
RECURSIVE FindSeparator(_, _)
FindSeparator(buf, length) ==
    IF length < Len(buf) /\ buf[length + 1] # SEP
        THEN FindSeparator(buf, length + 1)
        ELSE length

\* buf = buf[length:]
RestAfterPacket(buf, length) == SubSeq(buf, length + 1, Len(buf))

\* a generator object of decode_payload: the buffer left, and whether the
\* generator can still run (a generator that raised or returned cannot)
NoGen == [buf |-> <<>>, live |-> FALSE]

decode_payload(buf) == [buf |-> buf, live |-> TRUE]

\* next(gen): one resumption of the generator body
GenNext(gen) ==
    IF ~gen.live \/ gen.buf = <<>>
        THEN [kind |-> "stop", exc |-> "StopIteration", at |-> "protocol.py:36",
              value |-> NoPacket, gen |-> NoGen]
    ELSE LET length == FindSeparator(gen.buf, 0)
             packet == SubSeq(gen.buf, 1, length)
             rest   == RestAfterPacket(gen.buf, length)
             r      == decode_packet(Utf8Decode(packet))
         IN  IF r.exc # "none"
                 THEN [kind |-> "raise", exc |-> r.exc, at |-> r.at,
                       value |-> NoPacket, gen |-> NoGen]
                 ELSE [kind |-> "yield", exc |-> "none", at |-> "",
                       value |-> r.value, gen |-> [buf |-> rest, live |-> TRUE]]

\* `for packet_type, data in gen: ...` : the packets yielded until the
\* generator stops or raises, and the exception if it raised
RECURSIVE Drain(_)
Drain(gen) ==
    LET n == GenNext(gen)
    IN  IF n.kind = "yield"
            THEN LET d == Drain(n.gen)
                 IN  [out |-> <<n.value>> \o d.out, exc |-> d.exc, at |-> d.at]
        ELSE IF n.kind = "raise"
            THEN [out |-> <<>>, exc |-> n.exc, at |-> n.at]
        ELSE [out |-> <<>>, exc |-> "none", at |-> ""]

----------------------------------------------------------------------------
(* Values of the variables outside their use *)

NoErr == [exc |-> "none", at |-> ""]

NoRet == [exc |-> "none", at |-> "", gen |-> NoGen]

NoParams == [sid |-> "", upgrades |-> {}]

NoWs == [state |-> "none", uri |-> <<>>]

SeqsUpTo(S, n) == UNION {[1..k -> S] : k \in 0..n}

HsIdle ==
    /\ pc = "init" /\ hp = "-" /\ path = <<>> /\ http = <<>> /\ socks = <<>>
    /\ ret = NoRet /\ packets = NoGen /\ params = NoParams /\ ws = NoWs
    /\ wsSent = <<>> /\ wsRecv = <<>> /\ handled = <<>> /\ fires = 0
    /\ err = NoErr /\ cbErr = NoErr /\ srv = <<>>

CodecIdle == cIn = <<>> /\ cGen = NoGen /\ cOut = <<>> /\ cStatus = "stopped"

----------------------------------------------------------------------------
(* client.py: urlparse *)

NoUri == [some |-> FALSE, protocol |-> "", hostname |-> "", port |-> -1,
          path |-> <<>>]

\* int(s) for a string of decimal digits
RECURSIVE ParseInt(_)
ParseInt(digits) ==
    IF digits = <<>> THEN 0
    ELSE 10 * ParseInt(SubSeq(digits, 1, Len(digits) - 1))
         + DigitVal[digits[Len(digits)]]

\* The strings given to connect, as URL_RE sees them: whether the pattern
\* matches and its four groups.  A group that did not take part in the match
\* is None, written <<>> (no group of URL_RE can match the empty string).
Uris ==
    { [match |-> TRUE, g1 |-> "http", g2 |-> "host", g3 |-> <<"8", "0">>,
       g4 |-> <<>>],
      [match |-> TRUE, g1 |-> "http", g2 |-> "host", g3 |-> <<"8", "0">>,
       g4 |-> <<"/x">>],
      [match |-> TRUE, g1 |-> "http", g2 |-> "host", g3 |-> <<>>,
       g4 |-> <<>>],
      [match |-> FALSE, g1 |-> "", g2 |-> "", g3 |-> <<>>, g4 |-> <<>>] }

Queries == {"", "q=1"}

\* the calls of connect: every URI without a query, and the URI that has a
\* path also with a query
Args == { a \in [uri : Uris, query : Queries] :
            a.query # "" => a.uri.g4 # <<>> }

NoArg == [uri |-> [match |-> FALSE, g1 |-> "", g2 |-> "", g3 |-> <<>>,
                   g4 |-> <<>>],
          query |-> ""]

\* a parser that substitutes port 80 when the URI has none
urlparse_DefaultPort(uri) ==
    IF uri.match
        THEN [exc |-> "none", at |-> "",
              value |-> [some |-> TRUE, protocol |-> uri.g1,
                         hostname |-> uri.g2,
                         port |-> IF uri.g3 = <<>> THEN 80 ELSE ParseInt(uri.g3),
                         path |-> uri.g4]]
        ELSE [exc |-> "none", at |-> "", value |-> NoUri]

urlparse(uri) ==
    IF uri.match
        THEN IF uri.g3 = <<>>
                 THEN [exc |-> "TypeError", at |-> "client.py:25", value |-> NoUri]
                 ELSE [exc |-> "none", at |-> "",
                       value |-> [some |-> TRUE, protocol |-> uri.g1,
                                  hostname |-> uri.g2, port |-> ParseInt(uri.g3),
                                  path |-> uri.g4]]
        ELSE [exc |-> "none", at |-> "", value |-> NoUri]

----------------------------------------------------------------------------
(* client.py: the three exchanges run inside _connect_http *)

CT_TEXT == "text/plain; charset=UTF-8"
CT_OCTET == "application/octet-stream"

STATUS_OK == "HTTP/1.1 200 OK"

\* a status check that accepts every status line
StatusOk_AnyStatus(header) == TRUE

\* header == b'HTTP/1.1 200 OK'
StatusOk(header) == header = STATUS_OK

\* A response: its status line, the value of its Content-Type header or
\* "absent", whether it has a Content-Length header (whose value is then the
\* length of the body), and its body.
Responses(bodies) ==
    [status : {STATUS_OK, "HTTP/1.1 404 Not Found"},
     ctype  : {CT_TEXT, CT_OCTET, "absent"},
     clen   : BOOLEAN,
     body   : bodies]

Raise(exc, at) == [exc |-> exc, at |-> at, gen |-> NoGen]

\* an opening poll that decodes the whole payload before it returns
_connect_Eager(resp) ==
    IF ~StatusOk(resp.status) THEN Raise("AssertionError", "client.py:87")
    ELSE IF resp.ctype # "absent" /\ resp.ctype # CT_TEXT
        THEN Raise("AssertionError", "client.py:99")
    ELSE IF ~resp.clen \/ Len(resp.body) = 0
        THEN Raise("AssertionError", "client.py:103")
    ELSE LET d == Drain(decode_payload(resp.body))
         IN  IF d.exc # "none" THEN Raise(d.exc, d.at)
             ELSE [exc |-> "none", at |-> "", gen |-> decode_payload(resp.body)]

_connect(resp) ==
    IF ~StatusOk(resp.status) THEN Raise("AssertionError", "client.py:87")
    ELSE IF resp.ctype # "absent" /\ resp.ctype # CT_TEXT
        THEN Raise("AssertionError", "client.py:99")
    ELSE IF ~resp.clen \/ Len(resp.body) = 0
        THEN Raise("AssertionError", "client.py:103")
    ELSE [exc |-> "none", at |-> "", gen |-> decode_payload(resp.body)]

_send_message_connect(resp) ==
    IF ~StatusOk(resp.status) THEN Raise("AssertionError", "client.py:42")
    ELSE NoRet

_end_connection(resp) ==
    IF ~StatusOk(resp.status) THEN Raise("AssertionError", "client.py:64")
    ELSE LET length == IF resp.clen THEN Len(resp.body) ELSE 0
         IN  [exc |-> "none", at |-> "",
              gen |-> decode_payload(SubSeq(resp.body, 1, length))]

----------------------------------------------------------------------------
(* What the server may answer *)

OpenFirst ==
    { <<PACKET_OPEN, <<"J">>>>, <<PACKET_OPEN, <<"L">>>>,
      <<PACKET_OPEN, <<"K">>>>, <<PACKET_OPEN, <<"a">>>>,
      <<PACKET_MESSAGE, <<"a">>>>, <<PACKET_MESSAGE, <<"J">>>> }

PendingPackets ==
    { <<PACKET_MESSAGE, <<"a">>>>, <<PACKET_NOOP, <<>>>> }

\* the packet sequences of an opening poll
OpenPayloads ==
    {<<>>} \cup
    { <<f>> \o pend : f \in OpenFirst,
                      pend \in SeqsUpTo(PendingPackets, MaxPending) }

\* bytes the server may add after the packets of the opening poll: nothing,
\* or a separator and a packet that starts with the base64 marker
OpenTails == { <<>>, <<SEP, Ord("b"), Ord("a")>> }

\* the packet sequences of a follow-up or close poll
PollPayloads ==
    { <<>>, <<<<PACKET_NOOP, <<>>>>>>, <<<<PACKET_MESSAGE, <<"a">>>>>>,
      <<<<PACKET_NOOP, <<>>>>, <<PACKET_MESSAGE, <<"a">>>>>> }

\* the packets the persistent transport may yield after UPGRADE
WaitPackets == { <<PACKET_NOOP, <<>>>>, <<PACKET_MESSAGE, <<"a">>>> }

\* the packets the persistent transport may yield in answer to the probe
WsPackets ==
    { <<PACKET_PONG, probe>>, <<PACKET_PONG, <<"x">>>>,
      <<PACKET_NOOP, <<>>>>, <<PACKET_MESSAGE, <<"a">>>> }

----------------------------------------------------------------------------
(* client.py: _connect_http *)

PollPcs == {"open_poll", "post", "followup", "closepoll"}

\* a connect that does not look at what the close poll returned
AfterPoll_NoCloseCheck ==
    ( "open_poll" :> "chk_open" @@ "post" :> "mk_ws" @@
      "followup" :> "chk_followup" @@ "closepoll" :> "send_upgrade" )

AfterPoll ==
    ( "open_poll" :> "chk_open" @@ "post" :> "mk_ws" @@
      "followup" :> "chk_followup" @@ "closepoll" :> "chk_close" )

\* the path argument of the call of _connect_http at pc
PollPath ==
    IF pc \in {"followup", "closepoll"} THEN path \o <<"&transport=polling">>
    ELSE path

Cur == Len(socks)

\* a finally clause that forgets the socket
SockClose_Leak(s) == s

\* sock.close()
SockClose(s) == [s EXCEPT !.state = "closed"]

\* sock = socket.socket()
HttpSocket ==
    /\ pc \in PollPcs /\ hp = "socket"
    /\ \E ok \in BOOLEAN :
         IF ok
             THEN /\ socks' = Append(socks, [state |-> "created", xchg |-> 0])
                  /\ hp' = "addr"
                  /\ UNCHANGED <<pc, err>>
             ELSE \* socket() raises; the finally clause then finds `sock`
                  \* unbound and raises in turn
                  /\ pc' = "failed" /\ hp' = "-"
                  /\ err' = [exc |-> "NameError", at |-> "client.py:117"]
                  /\ UNCHANGED socks
    /\ UNCHANGED <<path, http, ret, packets, params, ws, wsSent, wsRecv,
                   handled, fires, cbErr, srv>>
    /\ UNCHANGED <<arg, codecVars>>

\* addr = socket.getaddrinfo(hostname, port)
HttpGetaddrinfo ==
    /\ pc \in PollPcs /\ hp = "addr"
    /\ \E ok \in BOOLEAN :
         IF ok THEN hp' = "connect" /\ UNCHANGED ret
         ELSE hp' = "finally" /\ ret' = Raise("OSError", "client.py:113")
    /\ UNCHANGED <<pc, path, http, socks, packets, params, ws, wsSent, wsRecv,
                   handled, fires, err, cbErr, srv>>
    /\ UNCHANGED <<arg, codecVars>>

\* sock.connect(addr[0][4])
HttpConnect ==
    /\ pc \in PollPcs /\ hp = "connect"
    /\ \E ok \in BOOLEAN :
         IF ok
             THEN /\ hp' = "then"
                  /\ socks' = [socks EXCEPT ![Cur].state = "connected"]
                  /\ UNCHANGED ret
             ELSE /\ hp' = "finally"
                  /\ ret' = Raise("OSError", "client.py:114")
                  /\ UNCHANGED socks
    /\ UNCHANGED <<pc, path, http, packets, params, ws, wsSent, wsRecv,
                   handled, fires, err, cbErr, srv>>
    /\ UNCHANGED <<arg, codecVars>>

\* return then(sock, hostname, port, path), then = _connect on the base path
HttpThenOpen ==
    /\ pc = "open_poll" /\ hp = "then"
    /\ \E ps \in OpenPayloads :
       \E resp \in Responses({EncodePayload(ps) \o t :
                                 t \in IF ps = <<>> THEN {<<>>} ELSE OpenTails}) :
         /\ srv' = ps
         /\ ret' = _connect(resp)
         /\ http' = Append(http, [method |-> "GET", path |-> PollPath,
                                   status |-> resp.status,
                                   ctype |-> resp.ctype, clen |-> resp.clen,
                                   body |-> resp.body])
    /\ socks' = [socks EXCEPT ![Cur].xchg = @ + 1]
    /\ hp' = "finally"
    /\ UNCHANGED <<pc, path, packets, params, ws, wsSent, wsRecv, handled,
                   fires, err, cbErr>>
    /\ UNCHANGED <<arg, codecVars>>

\* return then(...), then = _send_message_connect
HttpThenPost ==
    /\ pc = "post" /\ hp = "then"
    /\ \E resp \in {r \in Responses({<<Ord("o"), Ord("8")>>}) :
                         r.ctype = CT_TEXT} :
         /\ ret' = _send_message_connect(resp)
         /\ http' = Append(http, [method |-> "POST", path |-> PollPath,
                                   status |-> resp.status,
                                   ctype |-> resp.ctype, clen |-> resp.clen,
                                   body |-> resp.body])
    /\ socks' = [socks EXCEPT ![Cur].xchg = @ + 1]
    /\ hp' = "finally"
    /\ UNCHANGED <<pc, path, packets, params, ws, wsSent, wsRecv, handled,
                   fires, err, cbErr, srv>>
    /\ UNCHANGED <<arg, codecVars>>

\* return then(...), then = _connect on the polling path
HttpThenFollowup ==
    /\ pc = "followup" /\ hp = "then"
    /\ \E ps \in PollPayloads :
       \E resp \in Responses({EncodePayload(ps)}) :
         /\ ret' = _connect(resp)
         /\ http' = Append(http, [method |-> "GET", path |-> PollPath,
                                   status |-> resp.status,
                                   ctype |-> resp.ctype, clen |-> resp.clen,
                                   body |-> resp.body])
    /\ socks' = [socks EXCEPT ![Cur].xchg = @ + 1]
    /\ hp' = "finally"
    /\ UNCHANGED <<pc, path, packets, params, ws, wsSent, wsRecv, handled,
                   fires, err, cbErr, srv>>
    /\ UNCHANGED <<arg, codecVars>>

\* return then(...), then = _end_connection
HttpThenClose ==
    /\ pc = "closepoll" /\ hp = "then"
    /\ \E ps \in PollPayloads :
       \E resp \in Responses({EncodePayload(ps)}) :
         /\ ret' = _end_connection(resp)
         /\ http' = Append(http, [method |-> "GET", path |-> PollPath,
                                   status |-> resp.status,
                                   ctype |-> resp.ctype, clen |-> resp.clen,
                                   body |-> resp.body])
    /\ socks' = [socks EXCEPT ![Cur].xchg = @ + 1]
    /\ hp' = "finally"
    /\ UNCHANGED <<pc, path, packets, params, ws, wsSent, wsRecv, handled,
                   fires, err, cbErr, srv>>
    /\ UNCHANGED <<arg, codecVars>>

\* finally: sock.close(), then the return value or the exception reaches
\* connect
HttpFinally ==
    /\ pc \in PollPcs /\ hp = "finally"
    /\ socks' = [socks EXCEPT ![Cur] = SockClose(@)]
    /\ hp' = "-"
    /\ IF ret.exc # "none"
           THEN /\ pc' = "failed"
                /\ err' = [exc |-> ret.exc, at |-> ret.at]
                /\ ret' = NoRet
                /\ UNCHANGED packets
           ELSE /\ pc' = AfterPoll[pc]
                /\ packets' = IF pc = "open_poll" THEN ret.gen ELSE packets
                /\ UNCHANGED <<ret, err>>
    /\ UNCHANGED <<path, http, params, ws, wsSent, wsRecv, handled, fires,
                   cbErr, srv>>
    /\ UNCHANGED <<arg, codecVars>>

----------------------------------------------------------------------------
(* client.py: connect *)

\* json.loads on the payload of the OPEN packet
json_loads(text) ==
    IF text = <<"J">>
        THEN [exc |-> "none", value |-> [sid |-> "abc", upgrades |-> {"websocket"}]]
    ELSE IF text = <<"L">>
        THEN [exc |-> "none", value |-> [sid |-> "xyz", upgrades |-> {"websocket"}]]
    ELSE IF text = <<"K">>
        THEN [exc |-> "none", value |-> [sid |-> "abc", upgrades |-> {}]]
    ELSE [exc |-> "ValueError", value |-> NoParams]

\* an upgrade check that never fails
HasWebsocket_Unchecked(p) == TRUE

\* a connect that forgets to put the sid in the path
WithSid_Omitted(p, sid) == p

\* path += '&sid={}'.format(sid)
WithSid(p, sid) == p \o <<"&sid=", sid>>

\* a connect that takes any first packet for OPEN
IsOpen_Unchecked(packet_type) == TRUE

\* packet_type == PACKET_OPEN
IsOpen(packet_type) == packet_type = PACKET_OPEN

\* 'websocket' in params['upgrades']
HasWebsocket(p) == "websocket" \in p.upgrades

\* a probe check that looks at the packet type only
ProbeReplyOk_TypeOnly(packet) == packet[1] = PACKET_PONG

\* packet == (PACKET_PONG, 'probe')
ProbeReplyOk(packet) == packet = <<PACKET_PONG, probe>>

\* socketio._recv() != (PACKET_NOOP, '')
NotUpgradeConfirmation(packet) == packet # <<PACKET_NOOP, <<>>>>

Fail(exc, at) ==
    /\ pc' = "failed"
    /\ hp' = "-"
    /\ err' = [exc |-> exc, at |-> at]

\* lines 121-128: parse the URI and build the base path
connect_Start ==
    /\ pc = "init" /\ cStatus = "stopped"
    /\ LET u == urlparse(arg.uri)
             query == arg.query
         IN  IF u.exc # "none"
                 THEN Fail(u.exc, u.at) /\ UNCHANGED path
             ELSE IF ~u.value.some
                 THEN Fail("AssertionError", "client.py:123") /\ UNCHANGED path
             ELSE /\ path' = (IF u.value.path # <<>> THEN u.value.path
                              ELSE <<"/socket.io/?EIO=4">>)
                             \o (IF query # "" THEN <<"&", query>> ELSE <<>>)
                  /\ pc' = "open_poll" /\ hp' = "socket"
                  /\ UNCHANGED err
    /\ UNCHANGED <<http, socks, ret, packets, params, ws, wsSent, wsRecv,
                   handled, fires, cbErr, srv>>
    /\ UNCHANGED <<arg, codecVars>>

\* lines 136-145: take the first packet of the opening poll
connect_Open ==
    /\ pc = "chk_open"
    /\ LET n == GenNext(packets)
           j == json_loads(n.value[2])
       IN  /\ packets' = n.gen
           /\ IF n.kind # "yield"
                  THEN Fail(n.exc, IF n.kind = "stop" THEN "client.py:136" ELSE n.at)
                       /\ UNCHANGED <<params, path>>
              ELSE IF ~IsOpen(n.value[1])
                  THEN Fail("AssertionError", "client.py:138")
                       /\ UNCHANGED <<params, path>>
              ELSE IF j.exc # "none"
                  THEN Fail(j.exc, "client.py:139") /\ UNCHANGED <<params, path>>
              ELSE IF ~HasWebsocket(j.value)
                  THEN Fail("AssertionError", "client.py:142")
                       /\ params' = j.value /\ UNCHANGED path
              ELSE /\ params' = j.value
                   /\ path' = WithSid(path, j.value.sid)
                   /\ pc' = "post" /\ hp' = "socket"
                   /\ UNCHANGED err
    /\ ret' = NoRet
    /\ UNCHANGED <<http, socks, ws, wsSent, wsRecv, handled, fires, cbErr, srv>>
    /\ UNCHANGED <<arg, codecVars>>

\* lines 154-167: create the persistent transport, register on_connect and
\* send the probe
connect_Probe ==
    /\ pc = "mk_ws"
    /\ \E ok \in BOOLEAN :
         IF ok
             THEN /\ ws' = [state |-> "open",
                            uri |-> <<"ws://", "host", ":", "80">> \o path
                                    \o <<"&transport=websocket">>]
                  /\ wsSent' = Append(wsSent, <<PACKET_PING, probe>>)
                  /\ pc' = "followup" /\ hp' = "socket"
                  /\ UNCHANGED err
             ELSE Fail("OSError", "client.py:159") /\ UNCHANGED <<ws, wsSent>>
    /\ UNCHANGED <<path, http, socks, ret, packets, params, wsRecv, handled,
                   fires, cbErr, srv>>
    /\ UNCHANGED <<arg, codecVars>>

\* assert next(res) == (PACKET_NOOP, ''), at line `at`: the exception raised,
\* or NoErr
AssertNoop(gen, at) ==
    LET n == GenNext(gen)
    IN  IF n.kind = "stop" THEN [exc |-> n.exc, at |-> at]
        ELSE IF n.kind = "raise" THEN [exc |-> n.exc, at |-> n.at]
        ELSE IF n.value # <<PACKET_NOOP, <<>>>>
            THEN [exc |-> "AssertionError", at |-> at]
        ELSE NoErr

\* line 172: the follow-up poll must start with NOOP
connect_Followup ==
    /\ pc = "chk_followup"
    /\ LET e == AssertNoop(ret.gen, "client.py:172")
       IN  IF e # NoErr THEN Fail(e.exc, e.at)
           ELSE pc' = "recv_probe" /\ UNCHANGED <<hp, err>>
    /\ ret' = NoRet
    /\ UNCHANGED <<path, http, socks, packets, params, ws, wsSent, wsRecv,
                   handled, fires, cbErr, srv>>
    /\ UNCHANGED <<arg, codecVars>>

\* lines 175-176: the answer to the probe
connect_RecvProbe ==
    /\ pc = "recv_probe"
    /\ \E packet \in WsPackets :
         /\ wsRecv' = Append(wsRecv, packet)
         /\ IF ProbeReplyOk(packet)
                THEN pc' = "closepoll" /\ hp' = "socket" /\ UNCHANGED err
                ELSE Fail("AssertionError", "client.py:176")
    /\ UNCHANGED <<path, http, socks, ret, packets, params, ws, wsSent,
                   handled, fires, cbErr, srv>>
    /\ UNCHANGED <<arg, codecVars>>

\* line 181: the close poll must start with NOOP
connect_ClosePoll ==
    /\ pc = "chk_close"
    /\ LET e == AssertNoop(ret.gen, "client.py:181")
       IN  IF e # NoErr THEN Fail(e.exc, e.at)
           ELSE pc' = "send_upgrade" /\ UNCHANGED <<hp, err>>
    /\ ret' = NoRet
    /\ UNCHANGED <<path, http, socks, packets, params, ws, wsSent, wsRecv,
                   handled, fires, cbErr, srv>>
    /\ UNCHANGED <<arg, codecVars>>

\* line 184: socketio._send_packet(PACKET_UPGRADE)
connect_Upgrade ==
    /\ pc = "send_upgrade"
    /\ wsSent' = Append(wsSent, <<PACKET_UPGRADE, <<>>>>)
    /\ pc' = "wait_upgrade"
    /\ UNCHANGED <<hp, path, http, socks, ret, packets, params, ws, wsRecv,
                   handled, fires, err, cbErr, srv>>
    /\ UNCHANGED <<arg, codecVars>>

\* packets received by the loop of line 187 so far
Waited == Len(wsRecv) - 1

\* lines 187-190: one turn of the loop that waits for the confirmation
connect_WaitUpgrade ==
    /\ pc = "wait_upgrade"
    /\ \E packet \in WaitPackets :
         /\ NotUpgradeConfirmation(packet) => Waited < MaxWait
         /\ wsRecv' = Append(wsRecv, packet)
         /\ pc' = IF NotUpgradeConfirmation(packet) THEN "wait_upgrade" ELSE "done"
    /\ UNCHANGED <<hp, path, http, socks, ret, packets, params, ws, wsSent,
                   handled, fires, err, cbErr, srv>>
    /\ UNCHANGED <<arg, codecVars>>

----------------------------------------------------------------------------
(* The session returned by connect *)

Buffered(ps) == [i \in 1..Len(ps) |-> [src |-> "poll", pkt |-> ps[i]]]

\* a handler that walks a stored list of the pending packets on every call
on_connect_StoredList ==
    /\ pc = "done" /\ fires < MaxFires
    /\ handled' = handled \o Buffered(Tail(srv))
    /\ fires' = fires + 1
    /\ UNCHANGED <<pc, hp, path, http, socks, ret, packets, params, ws, wsSent,
                   wsRecv, err, cbErr, srv>>
    /\ UNCHANGED <<arg, codecVars>>

\* lines 162-165: the 'connection' handler registered by connect
on_connect ==
    /\ pc = "done" /\ fires < MaxFires
    /\ LET d == Drain(packets)
       IN  /\ handled' = handled \o Buffered(d.out)
           /\ cbErr' = [exc |-> d.exc, at |-> d.at]
    /\ packets' = NoGen
    /\ fires' = fires + 1
    /\ UNCHANGED <<pc, hp, path, http, socks, ret, params, ws, wsSent, wsRecv,
                   err, srv>>
    /\ UNCHANGED <<arg, codecVars>>

\* the packets the persistent transport may yield after the handshake
PostPackets == { <<PACKET_MESSAGE, <<"a">>>> }

FromWs == {i \in 1..Len(handled) : handled[i].src = "ws"}

\* the main loop of the session: a packet read from the persistent transport
\* after the 'connection' event is handed to _handle_packet
run_forever ==
    /\ pc = "done" /\ fires >= 1
    /\ Cardinality(FromWs) < MaxPost
    /\ \E packet \in PostPackets :
         handled' = Append(handled, [src |-> "ws", pkt |-> packet])
    /\ UNCHANGED <<pc, hp, path, http, socks, ret, packets, params, ws, wsSent,
                   wsRecv, fires, err, cbErr, srv>>
    /\ UNCHANGED <<arg, codecVars>>

----------------------------------------------------------------------------

Init == arg \in Args /\ HsIdle /\ CodecIdle

Next ==
    \/ connect_Start
    \/ HttpSocket
    \/ HttpGetaddrinfo
    \/ HttpConnect
    \/ HttpThenOpen
    \/ HttpFinally
    \/ connect_Open
    \/ HttpThenPost
    \/ connect_Probe
    \/ HttpThenFollowup
    \/ connect_Followup
    \/ connect_RecvProbe
    \/ HttpThenClose
    \/ connect_ClosePoll
    \/ connect_Upgrade
    \/ connect_WaitUpgrade
    \/ on_connect
    \/ run_forever

Spec == Init /\ [][Next]_vars

----------------------------------------------------------------------------
(* Runs of the decoder on an encoded payload *)

CodecPackets ==
    { <<PACKET_OPEN, <<"J">>>>, <<PACKET_PONG, probe>>,
      <<PACKET_MESSAGE, <<"a">>>>, <<PACKET_MESSAGE, <<"b">>>>,
      <<PACKET_MESSAGE, <<>>>>, <<PACKET_NOOP, <<>>>> }

CodecInit ==
    /\ arg = NoArg
    /\ HsIdle
    /\ cIn \in SeqsUpTo(CodecPackets, MaxPackets)
    /\ cGen = decode_payload(EncodePayload(cIn))
    /\ cOut = <<>>
    /\ cStatus = "running"

\* next(gen) returns a packet
CodecYield ==
    /\ cStatus = "running"
    /\ GenNext(cGen).kind = "yield"
    /\ cOut' = Append(cOut, GenNext(cGen).value)
    /\ cGen' = GenNext(cGen).gen
    /\ UNCHANGED <<cIn, cStatus>>
    /\ UNCHANGED hsVars

\* next(gen) raises StopIteration: the sequence ended
CodecStop ==
    /\ cStatus = "running"
    /\ GenNext(cGen).kind = "stop"
    /\ cStatus' = "stopped"
    /\ cGen' = GenNext(cGen).gen
    /\ UNCHANGED <<cIn, cOut>>
    /\ UNCHANGED hsVars

\* next(gen) raises out of the generator body
CodecRaise ==
    /\ cStatus = "running"
    /\ GenNext(cGen).kind = "raise"
    /\ cStatus' = GenNext(cGen).exc
    /\ cGen' = GenNext(cGen).gen
    /\ UNCHANGED <<cIn, cOut>>
    /\ UNCHANGED hsVars

CodecNext == CodecYield \/ CodecStop \/ CodecRaise

CodecSpec == CodecInit /\ [][CodecNext]_vars

\* C2: decoding the encoded packets joined by one separator yields exactly
\* the original packets in the original order and then ends without error.
C2_RoundTrip ==
    /\ cStatus \in {"running", "stopped"}
    /\ Len(cOut) <= Len(cIn)
    /\ \A i \in 1..Len(cOut) : cOut[i] = cIn[i]
    /\ cStatus = "stopped" => cOut = cIn

----------------------------------------------------------------------------
(* Properties of the handshake *)

IsPoll(h) == h.src = "poll"

PktsOf(hs) == [i \in 1..Len(hs) |-> hs[i].pkt]

\* the packets of the handshake handed to _handle_packet, in order
Replayed == PktsOf(SelectSeq(handled, IsPoll))

\* the packets the loop of line 187 read and dropped
Skipped == SubSeq(wsRecv, 2, Len(wsRecv) - (IF pc = "done" THEN 1 ELSE 0))

Count(p, seq) == Cardinality({i \in 1..Len(seq) : seq[i] = p})

\* C1: when the opening poll carried [OPEN, p1, ..., pn] with n >= 1, the
\* handshake reached ACTIVE and the 'connection' handler ran, the packet
\* handler has received p1, ..., pn in arrival order, before any packet read
\* from the persistent transport after the upgrade.
C1_PendingReplay ==
    (pc = "done" /\ fires >= 1 /\ Len(srv) >= 2) =>
        /\ Replayed = Tail(srv)
        /\ \A i, j \in 1..Len(handled) :
             (handled[i].src = "poll" /\ handled[j].src = "ws") => i < j

\* C3: once the handshake reached ACTIVE and the 'connection' handler ran,
\* every packet read during the handshake that is not one of the expected
\* control packets has been handed to the packet handler exactly once.
C3_NoLossNoDuplicate ==
    (pc = "done" /\ fires >= 1) =>
        \A p \in PendingPackets \cup WsPackets :
            Count(p, Replayed) = Count(p, Tail(srv)) + Count(p, Skipped)

\* C4: when the reply to the probe is not PONG "probe", connect fails, no
\* UPGRADE packet is sent on the persistent transport and no close poll is
\* issued.
C4_ProbeMismatch ==
    (wsRecv # <<>> /\ wsRecv[1] # <<PACKET_PONG, probe>>) =>
        /\ pc = "failed"
        /\ \A i \in 1..Len(wsSent) : wsSent[i][1] # PACKET_UPGRADE
        /\ Len(http) = 3
        /\ Len(socks) = 3

C4_Witness ==
    /\ pc = "failed"
    /\ wsRecv = <<<<PACKET_PONG, <<"x">>>>>>
    /\ wsSent = <<<<PACKET_PING, probe>>>>

\* C5: when the first packet the persistent transport yields after UPGRADE is
\* not NOOP, connect fails: the packet is not skipped and no session is
\* returned.
C5_StrictConfirmation ==
    (Len(wsRecv) >= 2 /\ wsRecv[2] # <<PACKET_NOOP, <<>>>>) => pc = "failed"

\* C6: the wait for the upgrade confirmation is bounded: connect is never
\* still waiting once the deadline has passed.
C6_BoundedWait == pc = "wait_upgrade" => Waited <= WaitDeadline

\* C7: when the upgrades of the OPEN packet lack "websocket", connect fails
\* having issued the opening GET only and created no persistent transport.
C7_MissingCapability ==
    (params.sid # "" /\ "websocket" \notin params.upgrades) =>
        /\ pc = "failed"
        /\ Len(http) = 1 /\ http[1].method = "GET"
        /\ Len(socks) = 1
        /\ ws = NoWs /\ wsSent = <<>>

C7_Witness ==
    /\ pc = "failed" /\ err = [exc |-> "AssertionError", at |-> "client.py:142"]
    /\ params = [sid |-> "abc", upgrades |-> {}]
    /\ srv[1] = <<PACKET_OPEN, <<"K">>>>

BadStatus == \E i \in 1..Len(http) : http[i].status # STATUS_OK

\* C8: once a polling response with a status line other than
\* "HTTP/1.1 200 OK" has been read, connect fails at that stage: control
\* never returns to a later statement of connect, no further request is
\* issued, no further socket is created and nothing more is sent on the
\* persistent transport.
C8_StatusAborts ==
    /\ [](BadStatus => (pc = "failed" \/ (pc \in PollPcs /\ hp = "finally")))
    /\ [][BadStatus => /\ http' = http
                       /\ wsSent' = wsSent
                       /\ ws' = ws
                       /\ Len(socks') = Len(socks)
                       /\ pc' \in {pc, "failed"}]_vars

C8_Witness ==
    /\ pc = "failed"
    /\ Len(http) = 3 /\ http[3].status # STATUS_OK
    /\ wsSent = <<<<PACKET_PING, probe>>>>
    /\ err = [exc |-> "AssertionError", at |-> "client.py:87"]

NotClosed == {i \in 1..Len(socks) : socks[i].state # "closed"}

\* C9: every polling socket carries at most one exchange and every exchange
\* has a socket of its own; at most one polling socket is open at a time, and
\* none is open whenever control is in connect rather than in _connect_http,
\* on both the return and the exception path.
C9_ScopedPolling ==
    /\ Cardinality(NotClosed) <= 1
    /\ NotClosed \subseteq {Len(socks)}
    /\ \A i \in 1..Len(socks) : socks[i].xchg <= 1
    /\ Len(http) <= Len(socks)
    /\ Len(http) >= Len(socks) - 1
    /\ hp = "-" => NotClosed = {}
    /\ hp \in {"-", "socket"} =>
           Cardinality({i \in 1..Len(socks) : socks[i].xchg = 1}) = Len(http)

C9_Witness ==
    /\ pc = "failed" /\ err = [exc |-> "OSError", at |-> "client.py:114"]
    /\ Len(socks) = 4 /\ Len(http) = 3
    /\ NotClosed = {}

\* C10: when connect has failed, every connection it opened is closed,
\* the persistent transport included.
C10_NoConnectionSurvives ==
    pc = "failed" => (NotClosed = {} /\ ws.state # "open")

\* the polling call in progress has raised, or connect has failed
CallFailed == pc = "failed" \/ (pc \in PollPcs /\ hp = "finally" /\ ret.exc # "none")

\* C11: a 200 OK polling response without a Content-Length header makes the
\* call that read it fail, for each of the four calls, and connect issues no
\* later request.
C11_ContentLengthMandatory ==
    \A i \in 1..Len(http) :
        (http[i].status = STATUS_OK /\ ~http[i].clen) =>
            (Len(http) = i /\ CallFailed)

\* C12: the opening poll accepts a 200 OK response of content-type
\* application/octet-stream and fails on any other; the follow-up poll and
\* the close poll accept text/plain; charset=UTF-8 and fail on any other.
C12_ContentTypePerCall ==
    \A i \in 1..Len(http) :
        LET expected == IF i = 1 THEN CT_OCTET ELSE CT_TEXT
            headersOk == /\ http[i].status = STATUS_OK
                         /\ http[i].clen /\ http[i].body # <<>>
        IN  (i # 2 /\ headersOk /\ hp # "then") =>
                ((http[i].ctype # expected) <=> (Len(http) = i /\ CallFailed))

\* C13: a URI that matches the pattern but has no port makes connect fail
\* before any socket is created and before any request is written.
C13_PortMandatory ==
    (arg.uri.match /\ arg.uri.g3 = <<>> /\ pc # "init") =>
        /\ pc = "failed"
        /\ http = <<>> /\ socks = <<>>
        /\ ws = NoWs /\ wsSent = <<>>

C13_Witness ==
    /\ arg.uri.match /\ arg.uri.g3 = <<>>
    /\ pc = "failed" /\ err = [exc |-> "TypeError", at |-> "client.py:25"]

\* the bytes of the first packet of a body
FirstPacketOf(body) == SubSeq(body, 1, FindSeparator(body, 0))

Closed(i) == socks[i].state = "closed"

\* C14: the channel operations happen in the order opening GET,
\* message-connect POST, creation of the transport and PING "probe",
\* follow-up poll, probe reply, close poll, UPGRADE, upgrade confirmation,
\* each after the previous one has completed; UPGRADE is sent only after
\* PONG "probe" was received and the close poll returned NOOP, and the session
\* is returned only after the NOOP confirmation was received.
C14_StageOrder ==
    /\ Len(http) <= 4 /\ Len(socks) <= 4 /\ Len(wsSent) <= 2
    /\ Len(http) >= 1 => http[1].method = "GET"
    /\ Len(socks) >= 2 => (Closed(1) /\ Len(http) >= 1)
    /\ Len(http) >= 2 => http[2].method = "POST"
    /\ ws.state # "none" => (Len(http) >= 2 /\ Closed(2))
    /\ wsSent # <<>> => (ws.state = "open" /\ wsSent[1] = <<PACKET_PING, probe>>)
    /\ Len(socks) >= 3 => (wsSent # <<>> /\ Closed(2))
    /\ Len(http) >= 3 => http[3].method = "GET"
    /\ wsRecv # <<>> => (Len(http) >= 3 /\ Closed(3))
    /\ Len(socks) >= 4 => (wsRecv # <<>> /\ wsRecv[1] = <<PACKET_PONG, probe>>)
    /\ Len(http) >= 4 => http[4].method = "GET"
    /\ Len(wsSent) >= 2 =>
          /\ wsSent[2] = <<PACKET_UPGRADE, <<>>>>
          /\ wsRecv # <<>> /\ wsRecv[1] = <<PACKET_PONG, probe>>
          /\ Len(http) = 4 /\ Closed(4)
          /\ http[4].clen
          /\ FirstPacketOf(http[4].body) = EncodePacket(<<PACKET_NOOP, <<>>>>)
    /\ Len(wsRecv) >= 2 => Len(wsSent) >= 2
    /\ pc = "done" =>
          /\ Len(wsRecv) >= 2
          /\ wsRecv[Len(wsRecv)] = <<PACKET_NOOP, <<>>>>

C14_Witness ==
    /\ pc = "done"
    /\ Len(http) = 4
    /\ wsSent = <<<<PACKET_PING, probe>>, <<PACKET_UPGRADE, <<>>>>>>
    /\ wsRecv = <<<<PACKET_PONG, probe>>, <<PACKET_NOOP, <<>>>>>>

PastFollowup == pc = "recv_probe" \/ wsRecv # <<>>

PastClosePoll == pc = "send_upgrade" \/ Len(wsSent) >= 2

\* C15: connect goes past the follow-up poll, and past the close poll, only
\* when the payload of the response is exactly one NOOP packet.
C15_ExactlyOneNoop ==
    /\ PastFollowup => http[3].body = EncodePayload(<<<<PACKET_NOOP, <<>>>>>>)
    /\ PastClosePoll => http[4].body = EncodePayload(<<<<PACKET_NOOP, <<>>>>>>)

\* C16: when the first packet of the opening poll is not OPEN, connect fails
\* having issued the opening GET only and created no persistent transport.
C16_FirstPacketOpen ==
    (srv # <<>> /\ srv[1][1] # PACKET_OPEN /\ pc \notin {"open_poll", "chk_open"}) =>
        /\ pc = "failed"
        /\ Len(http) = 1 /\ http[1].method = "GET"
        /\ Len(socks) = 1
        /\ ws = NoWs /\ wsSent = <<>>

C16_Witness ==
    /\ pc = "failed" /\ err = [exc |-> "AssertionError", at |-> "client.py:138"]
    /\ srv # <<>> /\ srv[1] = <<PACKET_MESSAGE, <<"J">>>>
    /\ Len(http) = 1

\* the sid of the OPEN packet the server sent
ServerSid == json_loads(srv[1][2]).value.sid

\* C17: the opening GET goes to the base path, which has no sid; every later
\* request of the call carries the sid of the OPEN packet, appended once; the
\* two polls add &transport=polling, the transport URI adds
\* &transport=websocket and the POST adds nothing.
C17_SidPropagation ==
    /\ Len(http) >= 1 =>
          \A k \in 1..Len(http[1].path) : http[1].path[k] # "&sid="
    /\ Len(http) >= 2 =>
          http[2].path = http[1].path \o <<"&sid=", ServerSid>>
    /\ \A i \in 3..Len(http) :
          http[i].path = http[1].path \o <<"&sid=", ServerSid>>
                         \o <<"&transport=polling">>
    /\ ws.state # "none" =>
          ws.uri = <<"ws://", "host", ":", "80">> \o http[1].path
                   \o <<"&sid=", ServerSid>> \o <<"&transport=websocket">>

C17_Witness ==
    /\ pc = "done" /\ Len(http) = 4
    /\ srv[1] = <<PACKET_OPEN, <<"L">>>>
    /\ http[4].path = <<"/x", "&", "q=1", "&sid=", "xyz", "&transport=polling">>

\* the packets that follow the first one in the opening poll
Pending == IF srv = <<>> THEN <<>> ELSE Tail(srv)

\* C18: each packet buffered from the opening poll is handed to the packet
\* handler at most once over all runs of the 'connection' handler, and the
\* second and later runs hand over none.
C18_ReplayAtMostOnce ==
    /\ [](\A p \in PendingPackets : Count(p, Replayed) <= Count(p, Pending))
    /\ [][fires >= 1 => Replayed' = Replayed]_vars

C18_Witness ==
    /\ pc = "done" /\ fires = 2
    /\ Len(srv) >= 2

DecodeErrors == {"protocol.py:26", "protocol.py:28", "protocol.py:30"}

\* failures of connect that do not come from the payload of the opening poll
TransportErrors ==
    {"client.py:87", "client.py:99", "client.py:103", "client.py:113",
     "client.py:114", "client.py:117"}

GoodFirstPackets ==
    { EncodePacket(<<PACKET_OPEN, <<"J">>>>), EncodePacket(<<PACKET_OPEN, <<"L">>>>) }

\* C19: connect decodes the first packet of the opening payload only: when
\* that packet is a good OPEN, connect does not fail on the payload whatever
\* follows it; a decode error that ends connect comes from the first packet
\* of the response just read; and the bytes after the first packet stay
\* undecoded in `packets` until the 'connection' handler runs.
C19_DeferredDecoding ==
    /\ (pc = "failed" /\ Len(http) = 1
        /\ FirstPacketOf(http[1].body) \in GoodFirstPackets) =>
           err.at \in TransportErrors
    /\ (pc = "failed" /\ err.at \in DecodeErrors) =>
           decode_packet(Utf8Decode(FirstPacketOf(http[Len(http)].body))).exc
               = err.exc
    /\ (pc \in {"post", "mk_ws", "followup", "chk_followup", "recv_probe",
                "closepoll", "chk_close", "send_upgrade", "wait_upgrade"}
        \/ (pc = "done" /\ fires = 0)) =>
           /\ packets.live
           /\ packets.buf = SubSeq(http[1].body,
                                   Len(FirstPacketOf(http[1].body)) + 1,
                                   Len(http[1].body))

C19_Witness ==
    /\ pc = "done" /\ fires >= 1
    /\ http[1].body = EncodePacket(<<PACKET_OPEN, <<"J">>>>)
                      \o <<SEP, Ord("b"), Ord("a")>>
    /\ cbErr.exc # "none"
    /\ handled = <<>>

====
